---- MODULE Spec2Model ----
(***************************************************************************)
(* Model of the conversion orchestration engine of src/VC135.py            *)
(* (VideoConverterApp): the GUI thread and its handlers, the scan loop     *)
(* thread(s) of run_conversion, the ThreadPoolExecutor that runs           *)
(* convert_file, the disposal of the source file, the deferred deletion    *)
(* timers, the time-window gate and the settings.                          *)
(*                                                                         *)
(* The threads share the attributes of the application object without any  *)
(* lock. A step of the model is one statement of the source that reads or  *)
(* writes shared state (an attribute, the file system, a child process);   *)
(* `x += 1` on an attribute is a load and a store; a blocking call of a    *)
(* child process or of shutil.copy2 is its start and its completion.       *)
(***************************************************************************)
EXTENDS Naturals, Integers, Sequences, FiniteSets, Bags, TLC

\* ------------------------------------------------------------------ bounds
MaxInFlight == 2     \* convert_file calls queued or running, in the engine specifications
MaxQueue == 1        \* calls waiting beyond the pool's workers, in the pool specification
MaxThreads == 1      \* run_conversion threads alive at once
MaxPending == 1      \* threading.Timer deletions not yet fired
MaxLoops == 2        \* run_conversion threads alive at once, in the specification of the scan loops
MaxCount == 2        \* distance of active_conversion_count from 0 at which no further call starts
MaxCalls == 1        \* convert_file calls queued or running, in the specifications of the workers
MaxTempDirs == 1     \* temporary directories existing when one more may be left behind

\* -------------------------------------------------------- program constants
max_workers == 4     \* ThreadPoolExecutor(max_workers=4)

\* ------------------------------------------------------------- file names
\* A file name is a record [stem, ext]; "a.mp4" is [stem |-> "a", ext |-> "mp4"].
Name(stem, ext) == [stem |-> stem, ext |-> ext]

\* A path is a folder and a name: os.path.join(dir, name).
Path(dir, name) == [dir |-> dir, name |-> name]
NoPath == Path("", Name("", ""))

\* The files that may lie in the source folder.
Files == {Name("a", "mp4")}

\* os.path.join(self.destination_folder,
\*              file_name if self.copy_only else splitext(file_name)[0] + '.' + output_format)
destination_file(file_name, destination_folder, copy_only, output_format) ==
    Path(destination_folder,
         IF copy_only THEN file_name ELSE Name(file_name.stem, output_format))

\* ------------------------------------------------------------------- time
\* A time of day is <<hour, minute, second>>; a settings string "HH:MM" is the
\* tuple of its four digits.
HHMM(h, m) == <<h \div 10, h % 10, m \div 10, m % 10>>

\* datetime.strptime(s, "%H:%M").time()
strptime(s) == <<10 * s[1] + s[2], 10 * s[3] + s[4], 0>>

\* datetime.time.__le__ : comparison of (hour, minute, second) in that order.
time_le(a, b) ==
    \/ a[1] < b[1]
    \/ a[1] = b[1] /\ a[2] < b[2]
    \/ a[1] = b[1] /\ a[2] = b[2] /\ a[3] <= b[3]

is_within_allowed_hours_mut(current_time, start_time_str, end_time_str, no_time_restrictions) ==
    IF no_time_restrictions THEN TRUE
    ELSE LET start_time == strptime(start_time_str)
             end_time == strptime(end_time_str)
         IN IF time_le(start_time, end_time)
            THEN time_le(start_time, current_time) /\ time_le(current_time, end_time)
            ELSE time_le(start_time, current_time) /\ time_le(current_time, end_time)

\* is_within_allowed_hours, as a function of the four values it reads.
is_within_allowed_hours(current_time, start_time_str, end_time_str, no_time_restrictions) ==
    IF no_time_restrictions THEN TRUE
    ELSE LET start_time == strptime(start_time_str)
             end_time == strptime(end_time_str)
         IN IF time_le(start_time, end_time)
            THEN time_le(start_time, current_time) /\ time_le(current_time, end_time)
            ELSE time_le(start_time, current_time) \/ time_le(current_time, end_time)

\* ---------------------------------------------------------------- settings
\* The attributes update_settings assigns, in a configuration start_conversion
\* accepts: the folders are set, nothing is deleted or backed up, the window
\* is not enforced.
BaseSettings ==
    [auto_run |-> FALSE,
     source_folder |-> "/src", destination_folder |-> "/dst", backup_folder |-> "",
     copy_only |-> FALSE, output_format |-> "mov",
     use_backup |-> FALSE, delete_after_conversion |-> FALSE, retention_time |-> 0,
     no_time_restrictions |-> TRUE, start_time |-> HHMM(9, 0), end_time |-> HHMM(17, 0),
     video_codec |-> "libx264", audio_codec |-> "aac"]

\* The attributes in the order in which update_settings assigns them.
AttributeOrder ==
    <<"auto_run", "delete_after_conversion", "retention_time", "use_backup",
      "output_format", "video_codec", "audio_codec", "copy_only", "start_time",
      "end_time", "no_time_restrictions", "source_folder", "destination_folder",
      "backup_folder">>

\* The settings the engine specifications start from.
SettingsDomain ==
    {BaseSettings,
     [BaseSettings EXCEPT !.no_time_restrictions = FALSE],
     [BaseSettings EXCEPT !.output_format = "mp3"],
     [BaseSettings EXCEPT !.copy_only = TRUE, !.delete_after_conversion = TRUE],
     [BaseSettings EXCEPT !.use_backup = TRUE, !.backup_folder = "/bak"],
     [BaseSettings EXCEPT !.use_backup = TRUE],
     [BaseSettings EXCEPT !.delete_after_conversion = TRUE],
     [BaseSettings EXCEPT !.delete_after_conversion = TRUE, !.retention_time = 5],
     [BaseSettings EXCEPT !.use_backup = TRUE, !.backup_folder = "/bak",
                             !.delete_after_conversion = TRUE]}

\* The times of day the clock of the engine model takes.
ClockTimes == {<<10, 0, 0>>, <<20, 0, 0>>}

VARIABLES
    settings,       \* the attributes of self that update_settings assigns
    gui,            \* the GUI thread: its position, the dict self.settings while
                    \* update_settings copies it, the files of a drop not yet
                    \* handled, whether the auto-run QTimer is armed
    now,            \* datetime.now().time()
    disk,           \* the names present in each folder
    pending,        \* bag of paths with a threading.Timer deletion scheduled
    temp_dirs,      \* number of directories made by tempfile.TemporaryDirectory that exist
    running,        \* self.running
    stop_event,     \* self.stop_event.is_set()
    threads,        \* bag of live run_conversion threads
    queue,          \* work queue of self.executor
    active,         \* bag of convert_file calls being executed by pool workers
    active_conversion_count,  \* self.active_conversion_count
    returned,       \* the convert_file call that returned in the last step, with its outcome
    encoder_probe,  \* what `ffmpeg -encoders` did when the module was loaded
    GPU_ENCODERS,   \* the module-level cache of get_supported_encoders()
    os_name,        \* os.name
    command         \* the command build_ffmpeg_command returned in the last step

vars == <<settings, gui, now, disk, pending, temp_dirs, running, stop_event,
          threads, queue, active, active_conversion_count, returned,
          encoder_probe, GPU_ENCODERS, os_name, command>>

guiVars == <<settings, gui>>
fsVars == <<disk, pending, temp_dirs>>
dispatcherVars == <<running, stop_event, threads>>
poolVars == <<queue, active, active_conversion_count>>
encoderVars == <<encoder_probe, GPU_ENCODERS, os_name>>

\* ---------------------------------------------------------------- encoders
\* The h264 and hevc encoder names of a vendor, as get_supported_encoders
\* writes them into its result.
VendorEncoders(vendor) ==
    CASE vendor = "nvidia" -> [h264 |-> "h264_nvenc", hevc |-> "hevc_nvenc"]
      [] vendor = "intel" -> [h264 |-> "h264_qsv", hevc |-> "hevc_qsv"]
      [] vendor = "amd" -> [h264 |-> "h264_amf", hevc |-> "hevc_amf"]

Vendors == {"nvidia", "intel", "amd"}

\* One run of `ffmpeg -encoders`: whether the binary was found, its exit code,
\* and the encoder names that occur in its lower-cased output.
Probe(found, returncode, encoders) ==
    [found |-> found, returncode |-> returncode, encoders |-> encoders]

\* The probe of the engine specifications: ffmpeg lists no hardware encoder.
SoftwareOnly == Probe(TRUE, 0, {})

\* get_supported_encoders(): subprocess.run(..., check=True) raises
\* FileNotFoundError when the binary is missing, which the function does not
\* catch; CalledProcessError (non-zero exit) is caught and gives {}.
get_supported_encoders(probe) ==
    IF ~probe.found
    THEN [raised |-> TRUE, supported |-> <<>>]
    ELSE IF probe.returncode # 0
    THEN [raised |-> FALSE, supported |-> <<>>]
    ELSE [raised |-> FALSE,
          supported |->
              [v \in {w \in Vendors : \/ VendorEncoders(w).h264 \in probe.encoders
                                      \/ VendorEncoders(w).hevc \in probe.encoders}
                  |-> VendorEncoders(v)]]

\* The value get_gpu_encoder returns when no vendor is detected.
None == [h264 |-> "", hevc |-> ""]

\* get_gpu_encoder(): the first detected vendor in the order nvidia, intel, amd.
get_gpu_encoder_mut(supported) ==
    IF "amd" \in DOMAIN supported THEN supported["amd"]
    ELSE IF "intel" \in DOMAIN supported THEN supported["intel"]
    ELSE IF "nvidia" \in DOMAIN supported THEN supported["nvidia"]
    ELSE None

get_gpu_encoder(supported) ==
    IF "nvidia" \in DOMAIN supported THEN supported["nvidia"]
    ELSE IF "intel" \in DOMAIN supported THEN supported["intel"]
    ELSE IF "amd" \in DOMAIN supported THEN supported["amd"]
    ELSE None

\* build_ffmpeg_command(input_file, output_file), as a function of the
\* attributes it reads; an unset codec is "".
build_ffmpeg_command(input_file, output_file, output_format, video_codec, audio_codec, supported) ==
    LET gpu_encoder == get_gpu_encoder(supported)
    IN IF output_format = "mp3"
       THEN <<"ffmpeg", "-y", "-i", input_file, "-vn",
              "-acodec", IF audio_codec # "" THEN audio_codec ELSE "libmp3lame",
              output_file>>
       ELSE IF gpu_encoder # None
       THEN <<"ffmpeg", "-y", "-i", input_file,
              "-vcodec", gpu_encoder.h264, "-acodec", audio_codec, output_file>>
       ELSE <<"ffmpeg", "-y", "-i", input_file,
              "-vcodec", video_codec, "-acodec", audio_codec, output_file>>

\* The module is loaded: GPU_ENCODERS = get_supported_encoders().
EncoderInit(probes) ==
    /\ encoder_probe \in probes
    /\ GPU_ENCODERS = get_supported_encoders(encoder_probe)
    /\ command = <<>>

\* ------------------------------------------------------------- filesystem
\* The folders that exist on disk; os.path.exists("") is False, and "/gone"
\* is a folder that was removed.
os_path_exists(folder) == folder \in {"/src", "/dst", "/bak", "/other"}

\* The disk with the given contents of the source, destination, backup and
\* outside folders; "" is the working directory.
Disk(src, dst, bak, other) ==
    [d \in {"", "/src", "/dst", "/bak", "/other"} |->
        CASE d = "/src" -> src
          [] d = "/dst" -> dst
          [] d = "/bak" -> bak
          [] d = "/other" -> other
          [] OTHER -> {}]

dstDir == disk["/dst"]

\* os.path.isfile(path), os.path.exists(path) of a file path, on the disk d.
os_path_isfile(d, path) == path.name \in d[path.dir]

\* The disk after the file at path was created, and after it was removed.
created(d, path) == [d EXCEPT ![path.dir] = @ \cup {path.name}]
removed_from(d, path) == [d EXCEPT ![path.dir] = @ \ {path.name}]

\* Extensions accepted by convert_videos and dropEvent.
supported_formats ==
    {"mp4", "avi", "wmv", "mkv", "flv", "webm", "mov", "mpeg", "mpg", "m4v",
     "3gp", "ts", "vob", "rm", "rmvb", "asf", "m2ts", "mts", "ogv", "divx",
     "dv", "f4v", "mxf", "nut", "ogm", "qt", "tod", "vro"}

\* str.lower on an extension, for the spellings that occur in the model.
lower(ext) ==
    CASE ext = "MP4" -> "mp4"
      [] ext = "Mp4" -> "mp4"
      [] ext = "TXT" -> "txt"
      [] OTHER -> ext

\* All orders in which os.listdir may return the set S.
RECURSIVE Orders(_)
Orders(S) ==
    IF S = {} THEN {<<>>}
    ELSE UNION {{<<x>> \o o : o \in Orders(S \ {x})} : x \in S}

\* The condition of the list comprehension of convert_videos on one entry f:
\* a supported name whose destination artifact does not exist.
is_new_file(f, d, destination_folder, copy_only, output_format) ==
    /\ lower(f.ext) \in supported_formats
    /\ ~os_path_isfile(d, destination_file(f, destination_folder, copy_only, output_format))

\* The list comprehension evaluated on one reading of the attributes s and of
\* the disk d.
new_files(d, s) ==
    {f \in d[s.source_folder] :
        is_new_file(f, d, s.destination_folder, s.copy_only, s.output_format)}

\* delete_file: os.remove when the path exists; `removed` is whether os.remove
\* succeeded (an exception is logged and the file stays).
delete_file(d, path, removed) ==
    IF os_path_isfile(d, path) /\ removed THEN removed_from(d, path) ELSE d

\* os.rename(file_path, backup_file_path); `renamed` is whether it succeeded
\* (OSError is logged and the file stays).
os_rename(d, from, to, renamed) ==
    IF os_path_isfile(d, from) /\ renamed THEN created(removed_from(d, from), to) ELSE d

\* ----------------------------------------------------------------- helpers
Allowed == is_within_allowed_hours(now, settings.start_time, settings.end_time,
                                   settings.no_time_restrictions)

\* A run_conversion thread: its position, the part of os.listdir's result the
\* list comprehension has not reached, the destination name its condition
\* built for the entry at hand, the new files found so far (then the ones not
\* yet submitted), the values is_within_allowed_hours has read, and
\* whether it is the thread self.thread refers to.
Thread(pc, listing, found, current_time, start_time_str, latest) ==
    [pc |-> pc, listing |-> listing, destination |-> NoPath, new_files |-> found,
     current_time |-> current_time, start_time_str |-> start_time_str, latest |-> latest]

\* The thread t at position pc, with no local value.
ThreadAt(t, pc) == Thread(pc, <<>>, <<>>, <<>>, <<>>, t.latest)

\* A convert_file call in a worker: its argument, its position, and its local
\* values: what is_within_allowed_hours has read, the counter value loaded by
\* `+= 1` or `-= 1`, destination_file, whether it took the copy-only branch,
\* the result of the child process or copy it waits for, input_file, the
\* output format read by build_ffmpeg_command, command, return_code (-1 before
\* process.wait() returned), the backup folder read for backup_file_path, the
\* outcome it returns with, whether its os.rename raised; and, as history, the
\* attributes as they were when the call began, whether stop_conversion ran
\* while it was copying or encoding, and the mark of its work item.
Call(file_path, attributes) ==
    [file |-> file_path, pc |-> "gate", current_time |-> <<>>, start_time_str |-> <<>>,
     loaded |-> 0, dest |-> NoPath, copy |-> FALSE, ok |-> FALSE, input_file |-> "",
     output_format |-> "", command |-> <<>>, return_code |-> -1, backup_folder |-> "", outcome |-> "",
     rename_failed |-> FALSE, snapshot |-> attributes, hit |-> FALSE, after_stop |-> FALSE]

\* A work item of the executor: convert_file with its argument; and, as
\* history, whether dropEvent submitted it while the loop was stopped with
\* the stop event set and the start/stop button has not been pressed since.
WorkItem(file_path, after_stop) == [file |-> file_path, after_stop |-> after_stop]

Done(f, outcome) == [file |-> f, outcome |-> outcome]
NoReturn == Done(NoPath, "none")

One(x) == SetToBag({x})

\* convert_file calls submitted to the executor and not yet returned.
InFlight == Len(queue) + BagCardinality(active)

Outcomes == {"Success", "SkippedExisting", "SkippedOutsideWindow",
             "SkippedNoAudioForAudioOnlyTarget", "PreprocessFailed",
             "TranscodeFailed", "ToolNotFound", "CopyFailed", "Stopped", "Raised"}

\* The GUI thread between two events.
Idle(timer) == [pc |-> "idle", new |-> <<>>, todo |-> <<>>, timer |-> timer]

\* -------------------------------------------------------------------- Init
\* The state after VideoConverterApp.__init__: load_settings returns whatever
\* schema-valid settings the file holds; with auto_run and both folders set
\* the constructor arms QTimer.singleShot(1000, self.start_conversion).
auto_run_armed(s) == s.auto_run /\ s.source_folder # "" /\ s.destination_folder # ""

InitApp(choices, times, disks, queues) ==
    /\ settings \in choices
    /\ gui = Idle(auto_run_armed(settings))
    /\ now \in times
    /\ disk \in disks
    /\ pending = EmptyBag
    /\ temp_dirs = 0
    /\ running = FALSE
    /\ stop_event = FALSE
    /\ threads = EmptyBag
    /\ queue \in queues
    /\ active = EmptyBag
    /\ active_conversion_count = 0
    /\ returned = NoReturn

\* os.name: "nt" on Windows, where a file another process holds open cannot
\* be removed, "posix" where it can.
OsNames == {"nt", "posix"}

\* The same, when ffmpeg lists no hardware encoder, on either kind of system.
InitWith(choices, times, disks, queues) ==
    /\ InitApp(choices, times, disks, queues)
    /\ EncoderInit({SoftwareOnly})
    /\ os_name \in OsNames

\* No convert_file returns and no command is built in this step.
Quiet == returned' = NoReturn /\ command' = <<>>

\* ------------------------------------------------------------- environment
\* Wall-clock time passes.
Tick(times) ==
    /\ now' \in times \ {now}
    /\ Quiet
    /\ UNCHANGED <<guiVars, encoderVars, fsVars, dispatcherVars, poolVars>>

\* A threading.Timer started by the disposal step fires: delete_file(file_path).
TimerFires ==
    \E path \in BagToSet(pending), removed \in BOOLEAN :
        /\ pending' = pending (-) One(path)
        /\ disk' = delete_file(disk, path, removed)
        /\ Quiet
        /\ UNCHANGED <<guiVars, now, encoderVars, temp_dirs, dispatcherVars, poolVars>>

\* ------------------------------------------------------------- GUI thread
\* The handlers below run in the GUI thread, one event at a time. The three
\* handlers of the start/stop button and of Quit write the two flags and start
\* a thread; each is one step.

\* The thread start_conversion creates becomes self.thread; the ones started
\* before are no longer referred to.
NotLatest(B) ==
    LET S == {[t EXCEPT !.latest = FALSE] : t \in BagToSet(B)}
    IN [u \in S |-> CopiesIn(u, B) + CopiesIn([u EXCEPT !.latest = TRUE], B)]

\* start_conversion, with at most cap threads alive: the folder check, the two
\* flags, the new thread. It does not test self.running.
start_conversion(cap) ==
    IF \/ settings.source_folder = ""
       \/ settings.destination_folder = ""
       \/ settings.use_backup /\ settings.backup_folder = ""
    THEN UNCHANGED <<running, stop_event, threads>>
    ELSE /\ BagCardinality(threads) < cap
         /\ running' = TRUE
         /\ stop_event' = FALSE
         /\ threads' = NotLatest(threads) (+) One(Thread("loop", <<>>, <<>>, <<>>, <<>>, TRUE))

\* The dispatcher: the flags, the loop threads and the pool.
Dispatcher == [running |-> running, stop_event |-> stop_event,
               threads |-> threads, queue |-> queue, active |-> active]

\* stop_conversion, on the dispatcher d.
stop_conversion_mut(d) == [d EXCEPT !.running = ~d.running, !.stop_event = TRUE]

stop_conversion(d) == [d EXCEPT !.running = FALSE, !.stop_event = TRUE]

\* History: the calls that wait for shutil.copy2 or for the transcoder when
\* stop_conversion runs are marked `hit`.
RECURSIVE MarkHit(_)
MarkHit(jobs) ==
    IF jobs = EmptyBag THEN EmptyBag
    ELSE LET j == CHOOSE x \in BagToSet(jobs) : TRUE
             m == IF j.pc \in {"copying", "enc"} THEN [j EXCEPT !.hit = TRUE] ELSE j
         IN One(m) (+) MarkHit(jobs (-) One(j))

\* toggle_process, the slot of the start/stop button: stop_conversion when
\* self.running, start_conversion otherwise. `mark` switches the history
\* marking of the calls hit on. The button pressed, no work item and no call
\* is any longer one submitted since the last press.
toggle_process(cap, mark) ==
    /\ gui.pc = "idle"
    /\ LET d == IF running THEN stop_conversion(Dispatcher) ELSE Dispatcher
           S == {[j EXCEPT !.after_stop = FALSE] : j \in BagToSet(d.active)}
           pressed == [u \in S |-> CopiesIn(u, d.active)
                                    + CopiesIn([u EXCEPT !.after_stop = TRUE], d.active)]
       IN /\ IF running
             THEN /\ running' = d.running
                  /\ stop_event' = d.stop_event
                  /\ threads' = d.threads
             ELSE start_conversion(cap)
          /\ queue' = [i \in DOMAIN d.queue |-> WorkItem(d.queue[i].file, FALSE)]
          /\ active' = IF running /\ mark THEN MarkHit(pressed) ELSE pressed
    /\ Quiet
    /\ UNCHANGED <<guiVars, now, encoderVars, fsVars, active_conversion_count>>

\* The QTimer armed by the constructor fires: start_conversion, whatever
\* self.running is.
auto_run_timer(cap) ==
    /\ gui.pc = "idle"
    /\ gui.timer
    /\ start_conversion(cap)
    /\ gui' = [gui EXCEPT !.timer = FALSE]
    /\ Quiet
    /\ UNCHANGED <<settings, now, encoderVars, fsVars, poolVars>>

\* quit_application: self.running = False; when self.thread is alive the stop
\* event is set and the GUI thread waits up to 5 s in join; then the event loop
\* ends, and with it every handler and the auto-run timer. The interpreter
\* waits for the pool's workers and for the deletion timers before it exits,
\* and the loop threads run until then.
quit_application ==
    /\ gui.pc = "idle"
    /\ running' = FALSE
    /\ stop_event' = IF \E t \in BagToSet(threads) : t.latest THEN TRUE ELSE stop_event
    /\ gui' = [gui EXCEPT !.pc = "quit", !.timer = FALSE]
    /\ Quiet
    /\ UNCHANGED <<settings, now, encoderVars, fsVars, threads, poolVars>>

\* The combination the settings dialog does not let the user choose.
ImmediateDeleteWithBackup(s) ==
    s.use_backup /\ s.delete_after_conversion /\ s.retention_time = 0

\* What SettingsDialog.save_settings can emit when opened on `cur`, among
\* `choices`; None is "".
\* - QComboBox.setCurrentText(None) raises TypeError in create_conversion_tab
\*   (609): on settings whose video_codec is None the dialog does not open.
\* - The use-backup box is unchecked and disabled by retention_time_changed
\*   whenever delete-after is checked with retention 0, so the forbidden
\*   combination is emitted only when the dialog was opened on it.
\* - With delete-after checked a retention outside 0..30 is refused (803-807).
\* - The format is an item of the combo box.
\* - video_codec is None when its combo box is disabled: for mp3 (update_codecs
\*   and toggle_copy_only), and after "Copy only" was checked in this dialog (toggle_copy_only on
\*   the signal's state). The call of toggle_copy_only in the constructor (639)
\*   passes a bool, which never equals Qt.Checked, so a dialog opened on
\*   copy_only leaves the box enabled.
\* - The folder boxes are read-only and the Change buttons ignore an empty
\*   answer: a folder is kept or replaced by a chosen one, never cleared.
SettingsDialog_save_settings(cur, choices) ==
    IF cur.video_codec = "" THEN {}
    ELSE {s \in choices :
            /\ ImmediateDeleteWithBackup(s) => ImmediateDeleteWithBackup(cur)
            /\ s.delete_after_conversion => s.retention_time \in 0..30
            /\ s.output_format \in {"mp4", "mov", "avi", "mkv", "mp3"}
            /\ s.audio_codec \in {"aac", "mp3", "ac3", "opus", "vorbis", "mp2", "amr_nb", "wmav2", "libmp3lame"}
            /\ s.video_codec \in {"", "libx264", "mpeg4", "libvpx", "hevc", "flv", "mpeg2video", "h263", "theora", "wmv2"}
            /\ IF s.output_format = "mp3" \/ (s.copy_only /\ ~cur.copy_only)
               THEN s.video_codec = ""
               ELSE s.copy_only \/ s.video_codec # ""
            /\ \A folder \in {"source_folder", "destination_folder", "backup_folder"} :
                  s[folder] = cur[folder] \/ s[folder] # ""}

\* update_settings(new_settings), the slot of SettingsDialog.settings_saved,
\* up to the first assignment: self.settings.update(new_settings) and
\* save_settings(self.settings). The attributes still hold the old values.
update_settings(choices) ==
    /\ gui.pc = "idle"
    /\ \E new \in SettingsDialog_save_settings(settings, choices) :
          /\ new # settings
          /\ gui' = [gui EXCEPT !.pc = "update_settings", !.new = new]
    /\ Quiet
    /\ UNCHANGED <<settings, now, encoderVars, fsVars, dispatcherVars, poolVars>>

\* The attribute the next assignment of update_settings changes: the first one,
\* in the order of the assignments, whose value differs from the dict's.
NextAttribute(cur, new) ==
    AttributeOrder[CHOOSE i \in 1..Len(AttributeOrder) :
                      /\ cur[AttributeOrder[i]] # new[AttributeOrder[i]]
                      /\ \A k \in 1..(i - 1) : cur[AttributeOrder[k]] = new[AttributeOrder[k]]]

\* One assignment `self.x = self.settings.get('x', ...)` of update_settings;
\* the assignments that leave their attribute as it is are passed over. After
\* the last one the handler returns.
update_settings_assign ==
    /\ gui.pc = "update_settings"
    /\ LET a == NextAttribute(settings, gui.new)
           s == [settings EXCEPT ![a] = gui.new[a]]
       IN /\ settings' = s
          /\ gui' = IF s = gui.new THEN Idle(gui.timer) ELSE gui
    /\ Quiet
    /\ UNCHANGED <<now, encoderVars, fsVars, dispatcherVars, poolVars>>

\* select_source_folder, select_destination_folder, select_backup_folder: the
\* folder chosen in the dialog is assigned to the attribute (and saved).
select_folder(attribute, folders) ==
    /\ gui.pc = "idle"
    /\ \E folder \in folders \ {"", settings[attribute]} :
          settings' = [settings EXCEPT ![attribute] = folder]
    /\ Quiet
    /\ UNCHANGED <<gui, now, encoderVars, fsVars, dispatcherVars, poolVars>>

select_source_folder(folders) == select_folder("source_folder", folders)
select_destination_folder(folders) == select_folder("destination_folder", folders)
select_backup_folder(folders) == select_folder("backup_folder", folders)

\* dropEvent with the files `files` (one of drops), up to the test of the first
\* pass of `for file_path in dropped_files`: os.path.isfile(file_path), a stat,
\* and the extension. A regular file with a supported extension is submitted
\* next, wherever it lies; any other is passed over.
dropEvent(drops) ==
    /\ gui.pc = "idle"
    /\ \E files \in drops :
          gui' = IF /\ os_path_isfile(disk, Head(files))
                    /\ lower(Head(files).name.ext) \in supported_formats
                 THEN [gui EXCEPT !.pc = "dropEvent_submit", !.todo = files]
                 ELSE IF Tail(files) = <<>> THEN gui
                 ELSE [gui EXCEPT !.pc = "dropEvent", !.todo = Tail(files)]
    /\ Quiet
    /\ UNCHANGED <<settings, now, encoderVars, fsVars, dispatcherVars, poolVars>>

\* self.executor.submit(self.convert_file, file_path), after the test: the
\* file may be gone by now. `mark` switches the history marking of the work
\* item on.
dropEvent_submit(cap, mark) ==
    /\ gui.pc = "dropEvent_submit"
    /\ InFlight < cap
    /\ queue' = Append(queue, WorkItem(Head(gui.todo), mark /\ ~running /\ stop_event))
    /\ gui' = IF Tail(gui.todo) = <<>> THEN Idle(gui.timer)
              ELSE [gui EXCEPT !.pc = "dropEvent", !.todo = Tail(gui.todo)]
    /\ Quiet
    /\ UNCHANGED <<settings, now, encoderVars, fsVars, dispatcherVars, active,
                   active_conversion_count>>

\* The test of a later pass of the loop of dropEvent.
dropEvent_next ==
    /\ gui.pc = "dropEvent"
    /\ gui' = IF /\ os_path_isfile(disk, Head(gui.todo))
                 /\ lower(Head(gui.todo).name.ext) \in supported_formats
              THEN [gui EXCEPT !.pc = "dropEvent_submit"]
              ELSE IF Tail(gui.todo) = <<>> THEN Idle(gui.timer)
              ELSE [gui EXCEPT !.todo = Tail(gui.todo)]
    /\ Quiet
    /\ UNCHANGED <<settings, now, encoderVars, fsVars, dispatcherVars, poolVars>>

\* ------------------------------------------------- run_conversion threads
\* The thread t becomes n.
ThreadGoto(t, n) == threads' = (threads (-) One(t)) (+) One(n)

threadFrame == <<guiVars, now, encoderVars, fsVars, running, poolVars>>

\* `while self.running and not self.stop_event.is_set()`, evaluated at thread
\* start and after each time.sleep(5).
run_conversion_loop ==
    \E t \in BagToSet(threads) :
        /\ t.pc = "loop"
        /\ ThreadGoto(t, ThreadAt(t, IF running /\ ~stop_event THEN "folders" ELSE "finally"))
        /\ Quiet
        /\ UNCHANGED <<threadFrame, stop_event>>

\* The finally block of run_conversion: self.stop_event.set(), and the thread
\* ends. self.running is not written.
run_conversion_finally ==
    \E t \in BagToSet(threads) :
        /\ t.pc = "finally"
        /\ threads' = threads (-) One(t)
        /\ stop_event' = TRUE
        /\ Quiet
        /\ UNCHANGED threadFrame

\* convert_videos: `if not os.path.exists(self.source_folder)`, the first
\* operand of the `or`: without the folder convert_videos returns.
convert_videos_folders ==
    \E t \in BagToSet(threads) :
        /\ t.pc = "folders"
        /\ ThreadGoto(t, ThreadAt(t, IF os_path_exists(settings.source_folder)
                                     THEN "folders_destination" ELSE "loop"))
        /\ Quiet
        /\ UNCHANGED <<threadFrame, stop_event>>

\* `or not os.path.exists(self.destination_folder): return`, the second
\* operand, evaluated after the stat of the first.
convert_videos_folders_destination ==
    \E t \in BagToSet(threads) :
        /\ t.pc = "folders_destination"
        /\ ThreadGoto(t, ThreadAt(t, IF os_path_exists(settings.destination_folder)
                                     THEN "gate" ELSE "loop"))
        /\ Quiet
        /\ UNCHANGED <<threadFrame, stop_event>>

\* is_within_allowed_hours called by convert_videos, statement by statement:
\* `if self.no_time_restrictions: return True`.
convert_videos_gate ==
    \E t \in BagToSet(threads) :
        /\ t.pc = "gate"
        /\ ThreadGoto(t, ThreadAt(t, IF settings.no_time_restrictions THEN "listdir"
                                     ELSE "gate_now"))
        /\ Quiet
        /\ UNCHANGED <<threadFrame, stop_event>>

\* current_time = datetime.now().time()
convert_videos_gate_now ==
    \E t \in BagToSet(threads) :
        /\ t.pc = "gate_now"
        /\ ThreadGoto(t, [t EXCEPT !.pc = "gate_start", !.current_time = now])
        /\ Quiet
        /\ UNCHANGED <<threadFrame, stop_event>>

\* start_time_str = self.start_time
convert_videos_gate_start ==
    \E t \in BagToSet(threads) :
        /\ t.pc = "gate_start"
        /\ ThreadGoto(t, [t EXCEPT !.pc = "gate_end", !.start_time_str = settings.start_time])
        /\ Quiet
        /\ UNCHANGED <<threadFrame, stop_event>>

\* end_time_str = self.end_time and the comparison; outside the window
\* convert_videos returns.
convert_videos_gate_end ==
    \E t \in BagToSet(threads) :
        /\ t.pc = "gate_end"
        /\ ThreadGoto(t, ThreadAt(t, IF is_within_allowed_hours(t.current_time, t.start_time_str,
                                                                settings.end_time, FALSE)
                                     THEN "listdir" ELSE "loop"))
        /\ Quiet
        /\ UNCHANGED <<threadFrame, stop_event>>

\* os.listdir(self.source_folder), the iterable of the list comprehension, in
\* whatever order the system lists the folder. An empty folder gives no new
\* file and convert_videos returns.
convert_videos_listdir ==
    \E t \in BagToSet(threads) :
        /\ t.pc = "listdir"
        /\ os_path_exists(settings.source_folder)
        /\ \E listing \in Orders(disk[settings.source_folder]) :
              ThreadGoto(t, IF listing = <<>> THEN ThreadAt(t, "loop")
                            ELSE [ThreadAt(t, "filter") EXCEPT !.listing = listing])
        /\ Quiet
        /\ UNCHANGED <<threadFrame, stop_event>>

\* os.listdir raises (the folder was removed or cannot be read): run_conversion
\* logs the exception and goes to its finally block.
convert_videos_raises ==
    \E t \in BagToSet(threads) :
        /\ t.pc = "listdir"
        /\ ThreadGoto(t, ThreadAt(t, "finally"))
        /\ Quiet
        /\ UNCHANGED <<threadFrame, stop_event>>

\* The thread t goes on to the next entry of the listing with the new files
\* `found`; after the last entry an empty list returns to the sleep of
\* run_conversion.
next_entry(t, found) ==
    IF Tail(t.listing) # <<>>
    THEN [t EXCEPT !.pc = "filter", !.listing = Tail(t.listing), !.new_files = found,
                   !.destination = NoPath]
    ELSE IF found = <<>> THEN ThreadAt(t, "loop")
    ELSE [ThreadAt(t, "stop_check") EXCEPT !.new_files = found]

\* One pass of the list comprehension, on the entry f. The condition tests the
\* extension and builds the destination name from self.destination_folder,
\* self.copy_only and self.output_format.
convert_videos_filter ==
    \E t \in BagToSet(threads) :
        /\ t.pc = "filter"
        /\ LET f == Head(t.listing)
           IN ThreadGoto(t, IF lower(f.ext) \in supported_formats
                            THEN [t EXCEPT !.pc = "exists",
                                           !.destination =
                                               destination_file(f, settings.destination_folder,
                                                                settings.copy_only,
                                                                settings.output_format)]
                            ELSE next_entry(t, t.new_files))
        /\ Quiet
        /\ UNCHANGED <<threadFrame, stop_event>>

\* `not os.path.exists(...)` on that name: a stat of the file system.
convert_videos_exists ==
    \E t \in BagToSet(threads) :
        /\ t.pc = "exists"
        /\ ThreadGoto(t, IF os_path_isfile(disk, t.destination)
                         THEN next_entry(t, t.new_files)
                         ELSE [t EXCEPT !.pc = "element"])
        /\ Quiet
        /\ UNCHANGED <<threadFrame, stop_event>>

\* The element of the comprehension: os.path.join(self.source_folder, f).
convert_videos_element ==
    \E t \in BagToSet(threads) :
        /\ t.pc = "element"
        /\ ThreadGoto(t, next_entry(t, Append(t.new_files,
                                              Path(settings.source_folder, Head(t.listing)))))
        /\ Quiet
        /\ UNCHANGED <<threadFrame, stop_event>>

\* `if self.stop_event.is_set(): return` in `for file_path in new_files`.
convert_videos_stop_check ==
    \E t \in BagToSet(threads) :
        /\ t.pc = "stop_check"
        /\ ThreadGoto(t, IF stop_event THEN ThreadAt(t, "loop") ELSE [t EXCEPT !.pc = "submit"])
        /\ Quiet
        /\ UNCHANGED <<threadFrame, stop_event>>

\* self.executor.submit(self.convert_file, file_path).
convert_videos_submit(cap) ==
    \E t \in BagToSet(threads) :
        /\ t.pc = "submit"
        /\ InFlight < cap
        /\ queue' = Append(queue, WorkItem(Head(t.new_files), FALSE))
        /\ ThreadGoto(t, IF Tail(t.new_files) = <<>> THEN ThreadAt(t, "loop")
                         ELSE [t EXCEPT !.pc = "stop_check", !.new_files = Tail(t.new_files)])
        /\ Quiet
        /\ UNCHANGED <<guiVars, now, encoderVars, fsVars, running, stop_event,
                       active, active_conversion_count>>
\* ------------------------------------------------------------ worker pool
\* ThreadPoolExecutor(max_workers=4): a queued call starts only on a free worker.
PoolHasFreeWorker_mut == TRUE

PoolHasFreeWorker == BagCardinality(active) < max_workers

\* start_conversion_indicator / end_conversion_indicator, on the value their
\* `+= 1` and `-= 1` loaded.
start_conversion_indicator(n) == n + 1
end_conversion_indicator(n) == n - 1

\* `with tempfile.TemporaryDirectory() as temp_dir`: entering the block makes a
\* directory that did not exist before (mkdtemp); leaving it, by the end of the
\* block, a return or an exception, calls cleanup(), which removes the
\* directory and what it holds. The block spans the transcode branch from the
\* ffprobe validation to the end of the disposal.
TemporaryDirectory_enter(dirs) == dirs + 1

\* The positions of the disposal block (of either branch).
DisposalPcs == {"backup_test", "backup_path", "rename", "delete_test",
                "retention_test", "timer", "delete_file"}

\* The positions inside the with block.
TemporaryDirectoryPcs ==
    {"probe", "probe_wait", "repair", "repair_wait", "audio_test", "audio",
     "audio_wait", "build", "command", "popen", "enc"} \cup DisposalPcs

InTemporaryDirectory(j) == ~j.copy /\ j.pc \in TemporaryDirectoryPcs

\* The directories that exist once the call j has left the block with the
\* given outcome. Every child process but one has been waited for by then:
\* on a stop the call kills ffmpeg and returns without process.wait(), so
\* cleanup() runs while the killed process may still hold its input open.
\* When that input is the repaired copy inside the directory and the system
\* is one where an open file cannot be removed, the removal fails or not, as
\* the process has released the file or not.
TemporaryDirectory_exit(dirs, j, outcome) ==
    IF ~InTemporaryDirectory(j) THEN {dirs}
    ELSE IF /\ outcome = "Stopped" /\ j.input_file = "temp_fixed_file"
            /\ os_name = "nt" /\ dirs <= MaxTempDirs
    THEN {dirs - 1, dirs}
    ELSE {dirs - 1}

\* The frame of a worker's step: what no statement of convert_file writes.
workerFrame == <<guiVars, now, encoderVars, dispatcherVars, queue>>

\* The call j moves on inside convert_file and becomes n.
Advance(j, n) ==
    /\ active' = (active (-) One(j)) (+) One(n)
    /\ returned' = NoReturn

\* The call j leaves the try block of convert_file with the given outcome, by
\* a return, the end of the block or an exception: the with block it is in is
\* left, and the finally block is next. A cleanup() that fails raises out of
\* the with block in place of the return, and the directory stays.
Leave_mut(j, outcome) ==
    \E dirs \in TemporaryDirectory_exit(temp_dirs, j, outcome) :
        /\ active' = One([Call(j.file, j.snapshot) EXCEPT !.pc = "finally",
                                                          !.outcome = IF outcome = "Success"
                                                                      THEN outcome ELSE "Raised",
                                                          !.hit = j.hit,
                                                          !.after_stop = j.after_stop])
        /\ temp_dirs' = dirs
        /\ returned' = NoReturn

Leave(j, outcome) ==
    \E dirs \in TemporaryDirectory_exit(temp_dirs, j, outcome) :
        /\ active' = (active (-) One(j))
                      (+) One([Call(j.file, j.snapshot) EXCEPT !.pc = "finally",
                                                               !.outcome = IF InTemporaryDirectory(j) /\ dirs = temp_dirs
                                                                           THEN "Raised" ELSE outcome,
                                                               !.hit = j.hit,
                                                               !.after_stop = j.after_stop])
        /\ temp_dirs' = dirs
        /\ returned' = NoReturn

\* convert_file returns.
Return_mut(j, outcome) ==
    /\ active' = active
    /\ returned' = Done(j.file, outcome)

Return(j, outcome) ==
    /\ active' = active (-) One(j)
    /\ returned' = Done(j.file, outcome)

\* A free worker takes the next call from the queue and enters convert_file.
convert_file_begin ==
    /\ queue # <<>>
    /\ PoolHasFreeWorker
    /\ -MaxCount < active_conversion_count
    /\ active_conversion_count < MaxCount
    /\ queue' = Tail(queue)
    /\ active' = active (+) One([Call(Head(queue).file, settings)
                                     EXCEPT !.after_stop = Head(queue).after_stop])
    /\ Quiet
    /\ UNCHANGED <<guiVars, now, encoderVars, fsVars, dispatcherVars, active_conversion_count>>

\* is_within_allowed_hours called by convert_file, statement by statement:
\* `if self.no_time_restrictions: return True`.
convert_file_gate ==
    \E j \in BagToSet(active) :
        /\ j.pc = "gate"
        /\ Advance(j, [j EXCEPT !.pc = IF settings.no_time_restrictions THEN "indicator"
                                       ELSE "gate_now"])
        /\ command' = <<>>
        /\ UNCHANGED <<workerFrame, fsVars, active_conversion_count>>

\* current_time = datetime.now().time()
convert_file_gate_now ==
    \E j \in BagToSet(active) :
        /\ j.pc = "gate_now"
        /\ Advance(j, [j EXCEPT !.pc = "gate_start", !.current_time = now])
        /\ command' = <<>>
        /\ UNCHANGED <<workerFrame, fsVars, active_conversion_count>>

\* start_time_str = self.start_time
convert_file_gate_start ==
    \E j \in BagToSet(active) :
        /\ j.pc = "gate_start"
        /\ Advance(j, [j EXCEPT !.pc = "gate_end", !.start_time_str = settings.start_time])
        /\ command' = <<>>
        /\ UNCHANGED <<workerFrame, fsVars, active_conversion_count>>

\* end_time_str = self.end_time and the comparison;
\* `if not self.is_within_allowed_hours(): return` at the top of convert_file.
convert_file_gate_end ==
    \E j \in BagToSet(active) :
        /\ j.pc = "gate_end"
        /\ IF is_within_allowed_hours(j.current_time, j.start_time_str, settings.end_time, FALSE)
           THEN Advance(j, [Call(j.file, j.snapshot) EXCEPT !.pc = "indicator",
                                                            !.after_stop = j.after_stop])
           ELSE Return(j, "SkippedOutsideWindow")
        /\ command' = <<>>
        /\ UNCHANGED <<workerFrame, fsVars, active_conversion_count>>

\* start_conversion_indicator: the load of `self.active_conversion_count += 1`.
start_indicator_load ==
    \E j \in BagToSet(active) :
        /\ j.pc = "indicator"
        /\ Advance(j, [j EXCEPT !.pc = "indicator_store", !.loaded = active_conversion_count])
        /\ command' = <<>>
        /\ UNCHANGED <<workerFrame, fsVars, active_conversion_count>>

\* start_conversion_indicator: the store of `+= 1`.
start_indicator_store ==
    \E j \in BagToSet(active) :
        /\ j.pc = "indicator_store"
        /\ active_conversion_count' = start_conversion_indicator(j.loaded)
        /\ Advance(j, [j EXCEPT !.pc = "destination", !.loaded = 0])
        /\ command' = <<>>
        /\ UNCHANGED <<workerFrame, fsVars>>

\* destination_file = os.path.join(self.destination_folder, ...)
convert_file_destination ==
    \E j \in BagToSet(active) :
        /\ j.pc = "destination"
        /\ Advance(j, [j EXCEPT !.pc = "exists",
                                !.dest = destination_file(j.file.name, settings.destination_folder,
                                                          settings.copy_only,
                                                          settings.output_format)])
        /\ command' = <<>>
        /\ UNCHANGED <<workerFrame, fsVars, active_conversion_count>>

\* `if os.path.exists(destination_file): return`
convert_file_exists ==
    \E j \in BagToSet(active) :
        /\ j.pc = "exists"
        /\ IF os_path_isfile(disk, j.dest)
           THEN Leave(j, "SkippedExisting")
           ELSE Advance(j, [j EXCEPT !.pc = "branch"]) /\ UNCHANGED temp_dirs
        /\ command' = <<>>
        /\ UNCHANGED <<workerFrame, disk, pending, active_conversion_count>>

\* `if self.copy_only:`
convert_file_branch ==
    \E j \in BagToSet(active) :
        /\ j.pc = "branch"
        /\ Advance(j, IF settings.copy_only THEN [j EXCEPT !.pc = "copy", !.copy = TRUE]
                      ELSE [j EXCEPT !.pc = "tempdir"])
        /\ command' = <<>>
        /\ UNCHANGED <<workerFrame, fsVars, active_conversion_count>>

\* Copy-only branch: shutil.copy2(file_path, destination_file) opens the source
\* and creates the destination. A failure is logged by the except clause of
\* the branch.
convert_file_copy ==
    \E j \in BagToSet(active) :
        /\ j.pc = "copy"
        /\ \E opened \in (IF os_path_isfile(disk, j.file) THEN BOOLEAN ELSE {FALSE}) :
              IF opened
              THEN /\ disk' = created(disk, j.dest)
                   /\ Advance(j, [j EXCEPT !.pc = "copying"])
                   /\ UNCHANGED temp_dirs
              ELSE /\ Leave(j, "CopyFailed")
                   /\ UNCHANGED disk
        /\ command' = <<>>
        /\ UNCHANGED <<workerFrame, pending, active_conversion_count>>

\* shutil.copy2 writes the destination and returns, or fails while writing
\* and leaves what it wrote.
convert_file_copying ==
    \E j \in BagToSet(active) :
        /\ j.pc = "copying"
        /\ \E copied \in BOOLEAN :
              IF copied
              THEN Advance(j, [j EXCEPT !.pc = "backup_test"]) /\ UNCHANGED temp_dirs
              ELSE Leave(j, "CopyFailed")
        /\ command' = <<>>
        /\ UNCHANGED <<workerFrame, disk, pending, active_conversion_count>>

\* Transcode branch: `with tempfile.TemporaryDirectory() as temp_dir:`
convert_file_tempdir ==
    \E j \in BagToSet(active) :
        /\ j.pc = "tempdir"
        /\ temp_dirs' = TemporaryDirectory_enter(temp_dirs)
        /\ Advance(j, [j EXCEPT !.pc = "probe"])
        /\ command' = <<>>
        /\ UNCHANGED <<workerFrame, disk, pending, active_conversion_count>>

\* What a child process that reads the file at path can report: success only
\* when the file is there.
Readable(path) == IF os_path_isfile(disk, path) THEN BOOLEAN ELSE {FALSE}

\* subprocess.run(probe_command, check=True) starts ffprobe on file_path, which
\* reads the file. A missing ffprobe raises FileNotFoundError, which the
\* except clause (CalledProcessError) does not catch.
convert_file_probe ==
    \E j \in BagToSet(active) :
        /\ j.pc = "probe"
        /\ \E found \in BOOLEAN, ok \in Readable(j.file) :
              IF found
              THEN Advance(j, [j EXCEPT !.pc = "probe_wait", !.ok = ok]) /\ UNCHANGED temp_dirs
              ELSE Leave(j, "Raised")
        /\ command' = <<>>
        /\ UNCHANGED <<workerFrame, disk, pending, active_conversion_count>>

\* ffprobe exits: with 0 the file is the input; otherwise preprocessing is needed.
convert_file_probe_wait ==
    \E j \in BagToSet(active) :
        /\ j.pc = "probe_wait"
        /\ Advance(j, IF j.ok THEN [j EXCEPT !.pc = "audio_test", !.ok = FALSE,
                                             !.input_file = "file_path"]
                      ELSE [j EXCEPT !.pc = "repair"])
        /\ command' = <<>>
        /\ UNCHANGED <<workerFrame, fsVars, active_conversion_count>>

\* subprocess.run(preprocess_command, check=True) starts the stream-copy remux
\* into temp_fixed_file. A missing ffmpeg raises FileNotFoundError out of
\* convert_file.
convert_file_repair ==
    \E j \in BagToSet(active) :
        /\ j.pc = "repair"
        /\ \E found \in BOOLEAN, ok \in Readable(j.file) :
              IF found
              THEN Advance(j, [j EXCEPT !.pc = "repair_wait", !.ok = ok]) /\ UNCHANGED temp_dirs
              ELSE Leave(j, "Raised")
        /\ command' = <<>>
        /\ UNCHANGED <<workerFrame, disk, pending, active_conversion_count>>

\* The remux exits: with 0 temp_fixed_file is the input; otherwise
\* CalledProcessError is logged and convert_file returns.
convert_file_repair_wait_mut ==
    \E j \in BagToSet(active) :
        /\ j.pc = "repair_wait"
        /\ Advance(j, [j EXCEPT !.pc = "audio_test", !.ok = FALSE,
                                !.input_file = "temp_fixed_file"])
        /\ command' = <<>>
        /\ UNCHANGED <<workerFrame, fsVars, active_conversion_count>>

convert_file_repair_wait ==
    \E j \in BagToSet(active) :
        /\ j.pc = "repair_wait"
        /\ IF j.ok
           THEN /\ Advance(j, [j EXCEPT !.pc = "audio_test", !.ok = FALSE,
                                        !.input_file = "temp_fixed_file"])
                /\ UNCHANGED temp_dirs
           ELSE Leave(j, "PreprocessFailed")
        /\ command' = <<>>
        /\ UNCHANGED <<workerFrame, disk, pending, active_conversion_count>>

\* `if self.output_format == 'mp3':`
convert_file_audio_test ==
    \E j \in BagToSet(active) :
        /\ j.pc = "audio_test"
        /\ Advance(j, [j EXCEPT !.pc = IF settings.output_format = "mp3" THEN "audio" ELSE "build"])
        /\ command' = <<>>
        /\ UNCHANGED <<workerFrame, fsVars, active_conversion_count>>

\* has_audio_stream(input_file) starts ffprobe on the input (a missing ffprobe
\* raises out of convert_file); `ok` is whether its output names an audio stream.
convert_file_audio ==
    \E j \in BagToSet(active) :
        /\ j.pc = "audio"
        /\ \E found \in BOOLEAN, ok \in BOOLEAN :
              IF found
              THEN Advance(j, [j EXCEPT !.pc = "audio_wait", !.ok = ok]) /\ UNCHANGED temp_dirs
              ELSE Leave(j, "Raised")
        /\ command' = <<>>
        /\ UNCHANGED <<workerFrame, disk, pending, active_conversion_count>>

\* `if not self.has_audio_stream(input_file): return`
convert_file_audio_wait ==
    \E j \in BagToSet(active) :
        /\ j.pc = "audio_wait"
        /\ IF j.ok
           THEN Advance(j, [j EXCEPT !.pc = "build", !.ok = FALSE]) /\ UNCHANGED temp_dirs
           ELSE Leave(j, "SkippedNoAudioForAudioOnlyTarget")
        /\ command' = <<>>
        /\ UNCHANGED <<workerFrame, disk, pending, active_conversion_count>>

\* build_ffmpeg_command: `if self.output_format == 'mp3':`
convert_file_build ==
    \E j \in BagToSet(active) :
        /\ j.pc = "build"
        /\ Advance(j, [j EXCEPT !.pc = "command", !.output_format = settings.output_format])
        /\ command' = <<>>
        /\ UNCHANGED <<workerFrame, fsVars, active_conversion_count>>

\* build_ffmpeg_command: the command list of the branch taken, which reads the
\* codecs.
convert_file_command ==
    \E j \in BagToSet(active) :
        /\ j.pc = "command"
        /\ command' = build_ffmpeg_command(j.input_file, "destination_file", j.output_format,
                                           settings.video_codec, settings.audio_codec,
                                           GPU_ENCODERS.supported)
        /\ Advance(j, [j EXCEPT !.pc = "popen", !.output_format = "", !.command = command'])
        /\ UNCHANGED <<workerFrame, fsVars, active_conversion_count>>

\* subprocess.Popen(command): a command holding None (the value after
\* "-vcodec" when video_codec is unset) raises TypeError before anything is
\* started, caught by `except Exception`: "Error converting". Otherwise ffmpeg
\* starts and opens its input (`ok` is whether it could), or
\* FileNotFoundError is caught: "ffmpeg not found".
convert_file_popen ==
    \E j \in BagToSet(active) :
        /\ j.pc = "popen"
        /\ IF \E i \in 1..(Len(j.command) - 1) : j.command[i] = "-vcodec" /\ j.command[i + 1] = ""
           THEN Leave(j, "TranscodeFailed")
           ELSE \E found \in BOOLEAN :
                   IF found
                   THEN /\ Advance(j, [j EXCEPT !.pc = "enc", !.command = <<>>,
                                                !.ok = \/ j.input_file = "temp_fixed_file"
                                                       \/ os_path_isfile(disk, j.file)])
                        /\ UNCHANGED temp_dirs
                   ELSE Leave(j, "ToolNotFound")
        /\ command' = <<>>
        /\ UNCHANGED <<workerFrame, disk, pending, active_conversion_count>>

\* `if self.stop_event.is_set()` inside the loop over the transcoder's output:
\* the only condition on which a running call kills its process.
stop_requested_mut == stop_event \/ ~Allowed

stop_requested == stop_event

\* One pass of `for line in process.stdout`: the thread waits for a line
\* while ffmpeg runs, which by then may have opened its output file, when it
\* could read its input; then the stop check (process.kill() and return, the
\* file staying where it is), then the log.
convert_file_line ==
    \E j \in BagToSet(active) :
        /\ j.pc = "enc"
        /\ \E opened \in (IF j.ok THEN BOOLEAN ELSE {FALSE}) :
              disk' = IF opened THEN created(disk, j.dest) ELSE disk
        /\ IF stop_requested
           THEN Leave(j, "Stopped")
           ELSE /\ returned' = NoReturn
                /\ UNCHANGED <<active, temp_dirs>>
        /\ command' = <<>>
        /\ UNCHANGED <<workerFrame, pending, active_conversion_count>>

\* `if return_code == 0`
exit_success_mut(return_code) == TRUE

exit_success(return_code) == return_code = 0

\* The output stream ends and process.wait() returns the exit code; ffmpeg
\* exits with 0 only after reading its input and writing its output, and with
\* another code it may have opened its output before failing.
convert_file_exit ==
    \E j \in BagToSet(active) :
        /\ j.pc = "enc"
        /\ \E return_code \in (IF j.ok THEN {0, 1} ELSE {1}), opened \in (IF j.ok THEN BOOLEAN ELSE {FALSE}) :
              /\ disk' = IF return_code = 0 \/ opened THEN created(disk, j.dest) ELSE disk
              /\ IF exit_success(return_code)
                 THEN /\ Advance(j, [j EXCEPT !.pc = "backup_test", !.ok = FALSE,
                                              !.return_code = return_code])
                      /\ UNCHANGED temp_dirs
                 ELSE Leave(j, "TranscodeFailed")
        /\ command' = <<>>
        /\ UNCHANGED <<workerFrame, pending, active_conversion_count>>

\* The disposal block, after a successful transcode and after a successful
\* copy. `if self.use_backup and self.backup_folder:`
move_to_backup(s) == s.use_backup /\ s.backup_folder # ""

\* `if self.delete_after_conversion and not self.use_backup:`
delete_original(s) == s.delete_after_conversion /\ ~s.use_backup

\* `if self.retention_time > 0`: the deletion is left to a threading.Timer.
deletion_deferred(s) == s.retention_time > 0

convert_file_backup_test ==
    \E j \in BagToSet(active) :
        /\ j.pc = "backup_test"
        /\ Advance(j, [j EXCEPT !.pc = IF move_to_backup(settings) THEN "backup_path"
                                       ELSE "delete_test"])
        /\ command' = <<>>
        /\ UNCHANGED <<workerFrame, fsVars, active_conversion_count>>

\* backup_file_path = os.path.join(self.backup_folder, file_name)
convert_file_backup_path ==
    \E j \in BagToSet(active) :
        /\ j.pc = "backup_path"
        /\ Advance(j, [j EXCEPT !.pc = "rename", !.backup_folder = settings.backup_folder])
        /\ command' = <<>>
        /\ UNCHANGED <<workerFrame, fsVars, active_conversion_count>>

\* os.rename(file_path, backup_file_path); OSError is logged.
convert_file_rename ==
    \E j \in BagToSet(active) :
        /\ j.pc = "rename"
        /\ \E renamed \in BOOLEAN :
              /\ disk' = os_rename(disk, j.file, Path(j.backup_folder, j.file.name), renamed)
              /\ Advance(j, [j EXCEPT !.pc = "delete_test", !.backup_folder = "",
                                      !.rename_failed = ~(os_path_isfile(disk, j.file) /\ renamed)])
        /\ command' = <<>>
        /\ UNCHANGED <<workerFrame, pending, temp_dirs, active_conversion_count>>

\* The test of the deletion; when it fails the block is at its end.
convert_file_delete_test ==
    \E j \in BagToSet(active) :
        /\ j.pc = "delete_test"
        /\ IF delete_original(settings)
           THEN Advance(j, [j EXCEPT !.pc = "retention_test"]) /\ UNCHANGED temp_dirs
           ELSE Leave(j, "Success")
        /\ command' = <<>>
        /\ UNCHANGED <<workerFrame, disk, pending, active_conversion_count>>

convert_file_retention_test ==
    \E j \in BagToSet(active) :
        /\ j.pc = "retention_test"
        /\ Advance(j, [j EXCEPT !.pc = IF deletion_deferred(settings) THEN "timer"
                                       ELSE "delete_file"])
        /\ command' = <<>>
        /\ UNCHANGED <<workerFrame, fsVars, active_conversion_count>>

\* threading.Timer(self.retention_time * 86400, self.delete_file,
\*                 args=(file_path,)).start()
convert_file_timer ==
    \E j \in BagToSet(active) :
        /\ j.pc = "timer"
        /\ BagCardinality(pending) < MaxPending
        /\ pending' = pending (+) One(j.file)
        /\ Leave(j, "Success")
        /\ command' = <<>>
        /\ UNCHANGED <<workerFrame, disk, active_conversion_count>>

\* self.delete_file(file_path)
convert_file_delete ==
    \E j \in BagToSet(active) :
        /\ j.pc = "delete_file"
        /\ \E removed \in BOOLEAN : disk' = delete_file(disk, j.file, removed)
        /\ Leave(j, "Success")
        /\ command' = <<>>
        /\ UNCHANGED <<workerFrame, pending, active_conversion_count>>

\* The finally block of convert_file, end_conversion_indicator:
\* `if self.active_conversion_count > 0:`; when the test fails the call returns.
end_indicator_test ==
    \E j \in BagToSet(active) :
        /\ j.pc = "finally"
        /\ IF active_conversion_count > 0
           THEN Advance(j, [j EXCEPT !.pc = "end_load"])
           ELSE Return(j, j.outcome)
        /\ command' = <<>>
        /\ UNCHANGED <<workerFrame, fsVars, active_conversion_count>>

\* end_conversion_indicator: the load of `self.active_conversion_count -= 1`.
end_indicator_load ==
    \E j \in BagToSet(active) :
        /\ j.pc = "end_load"
        /\ Advance(j, [j EXCEPT !.pc = "end_store", !.loaded = active_conversion_count])
        /\ command' = <<>>
        /\ UNCHANGED <<workerFrame, fsVars, active_conversion_count>>

\* end_conversion_indicator: the store of `-= 1`; the call returns.
end_indicator_store ==
    \E j \in BagToSet(active) :
        /\ j.pc = "end_store"
        /\ active_conversion_count' = end_conversion_indicator(j.loaded)
        /\ Return(j, j.outcome)
        /\ command' = <<>>
        /\ UNCHANGED <<workerFrame, fsVars>>

\* -------------------------------------------------------------------- Next
\* The steps of is_within_allowed_hours inside convert_videos when the window
\* is enforced.
ScanWindow ==
    \/ convert_videos_gate_now
    \/ convert_videos_gate_start
    \/ convert_videos_gate_end

\* The steps of a run_conversion thread when the window is not enforced.
ThreadStep(cap) ==
    \/ run_conversion_loop
    \/ run_conversion_finally
    \/ convert_videos_folders
    \/ convert_videos_folders_destination
    \/ convert_videos_gate
    \/ convert_videos_listdir
    \/ convert_videos_raises
    \/ convert_videos_filter
    \/ convert_videos_exists
    \/ convert_videos_element
    \/ convert_videos_stop_check
    \/ convert_videos_submit(cap)

\* The steps of is_within_allowed_hours inside convert_file when the window is
\* enforced.
WorkerWindow ==
    \/ convert_file_gate_now
    \/ convert_file_gate_start
    \/ convert_file_gate_end

\* convert_file from the call to the branch on copy_only, and its finally block.
WorkerEntry ==
    \/ convert_file_begin
    \/ convert_file_gate
    \/ start_indicator_load
    \/ start_indicator_store
    \/ convert_file_destination
    \/ convert_file_exists
    \/ convert_file_branch
    \/ end_indicator_test
    \/ end_indicator_load
    \/ end_indicator_store

\* The copy-only branch up to its disposal block.
WorkerCopy ==
    \/ convert_file_copy
    \/ convert_file_copying

\* The transcode branch up to its disposal block, for a target with video.
WorkerTranscode ==
    \/ convert_file_tempdir
    \/ convert_file_probe
    \/ convert_file_probe_wait
    \/ convert_file_repair
    \/ convert_file_repair_wait
    \/ convert_file_audio_test
    \/ convert_file_build
    \/ convert_file_command
    \/ convert_file_popen
    \/ convert_file_line
    \/ convert_file_exit

\* The audio-stream check of an mp3 target.
WorkerAudio ==
    \/ convert_file_audio
    \/ convert_file_audio_wait

\* The tests of the disposal block.
WorkerDisposal ==
    \/ convert_file_backup_test
    \/ convert_file_delete_test

\* The move to the backup folder.
WorkerBackup ==
    \/ convert_file_backup_path
    \/ convert_file_rename

\* The deletion, immediate or by a timer.
WorkerDelete ==
    \/ convert_file_retention_test
    \/ convert_file_timer
    \/ convert_file_delete

\* Every step of a worker.
WorkerStep ==
    \/ WorkerEntry
    \/ WorkerWindow
    \/ WorkerCopy
    \/ WorkerTranscode
    \/ WorkerAudio
    \/ WorkerDisposal
    \/ WorkerBackup
    \/ WorkerDelete


\* The steps of a run_conversion thread whose scans find the source folder
\* empty, when the window is not enforced.
ThreadIdle ==
    \/ run_conversion_loop
    \/ run_conversion_finally
    \/ convert_videos_folders
    \/ convert_videos_folders_destination
    \/ convert_videos_gate
    \/ convert_videos_listdir

\* ---------------------------------------------------------- specifications
\* The source folder holds Files, the other folders are empty.
FreshDisk == Disk(Files, {}, {}, {})

\* The source folder is empty and Files lie in a folder outside it.
OutsideDisk == Disk({}, {}, {}, Files)

\* One file of the folder dir dropped on the window.
Drops(dir) == {<<Path(dir, f)>> : f \in Files}

\* The calls of convert_file on the files of folder dir, up to n of them.
Calls(dir, n) == {[i \in 1..k |-> WorkItem(Path(dir, f), FALSE)] : k \in 1..n, f \in Files}

\* No call is queued or running.
Drained == queue = <<>> /\ active = EmptyBag

\* The engine: files of the source folder are dropped on the window one at a
\* time and converted by the pool, while the button is pressed and the
\* timers fire. The loop thread is in its sleep. The settings are whatever the
\* file held.
Init == InitWith(SettingsDomain, {<<10, 0, 0>>}, {FreshDisk}, {<<>>})

Next ==
    \/ TimerFires
    \/ dropEvent(Drops("/src"))
    \/ dropEvent_submit(MaxCalls, FALSE)
    \/ toggle_process(MaxThreads, FALSE)
    \/ WorkerStep

Spec == Init /\ [][Next]_vars

\* The button pressed while a call copies or encodes: the calls that were
\* waiting for shutil.copy2 or for the transcoder at that moment are marked.
StopSettings == {BaseSettings, [BaseSettings EXCEPT !.copy_only = TRUE]}

InitStop == InitWith(StopSettings, {<<10, 0, 0>>}, {FreshDisk}, {<<>>})

NextStop ==
    \/ dropEvent(Drops("/src"))
    \/ dropEvent_submit(MaxCalls, FALSE)
    \/ toggle_process(MaxThreads, TRUE)
    \/ WorkerEntry
    \/ WorkerCopy
    \/ WorkerTranscode
    \/ WorkerDisposal

SpecStop == InitStop /\ [][NextStop]_vars

\* The pool under fair scheduling: calls already submitted are run by the
\* workers while the button is pressed. Each worker step that is enabled is
\* eventually taken: the pool schedules its workers, ffprobe and ffmpeg exit,
\* a timer fires.
InitLive == InitWith(SettingsDomain, ClockTimes, {FreshDisk}, Calls("/src", MaxCalls))

NextLive ==
    \/ TimerFires
    \/ toggle_process(MaxThreads, FALSE)
    \/ WorkerStep

SpecLive ==
    /\ InitLive /\ [][NextLive]_vars
    /\ WF_vars(TimerFires)
    /\ WF_vars(convert_file_begin)
    /\ WF_vars(convert_file_gate)
    /\ WF_vars(convert_file_gate_now)
    /\ WF_vars(convert_file_gate_start)
    /\ WF_vars(convert_file_gate_end)
    /\ WF_vars(start_indicator_load)
    /\ WF_vars(start_indicator_store)
    /\ WF_vars(convert_file_destination)
    /\ WF_vars(convert_file_exists)
    /\ WF_vars(convert_file_branch)
    /\ WF_vars(convert_file_copy)
    /\ WF_vars(convert_file_copying)
    /\ WF_vars(convert_file_tempdir)
    /\ WF_vars(convert_file_probe)
    /\ WF_vars(convert_file_probe_wait)
    /\ WF_vars(convert_file_repair)
    /\ WF_vars(convert_file_repair_wait)
    /\ WF_vars(convert_file_audio_test)
    /\ WF_vars(convert_file_audio)
    /\ WF_vars(convert_file_audio_wait)
    /\ WF_vars(convert_file_build)
    /\ WF_vars(convert_file_command)
    /\ WF_vars(convert_file_popen)
    /\ WF_vars(convert_file_exit)
    /\ WF_vars(convert_file_backup_test)
    /\ WF_vars(convert_file_backup_path)
    /\ WF_vars(convert_file_rename)
    /\ WF_vars(convert_file_delete_test)
    /\ WF_vars(convert_file_retention_test)
    /\ WF_vars(convert_file_timer)
    /\ WF_vars(convert_file_delete)
    /\ WF_vars(end_indicator_test)
    /\ WF_vars(end_indicator_load)
    /\ WF_vars(end_indicator_store)

\* Several calls at once: the same file is dropped again while its call runs,
\* with the loop thread in its sleep; a transcode, a copy, a move to the
\* backup folder.
CallSettings ==
    {BaseSettings,
     [BaseSettings EXCEPT !.copy_only = TRUE],
     [BaseSettings EXCEPT !.use_backup = TRUE, !.backup_folder = "/bak"]}

InitCalls == InitWith(CallSettings, {<<10, 0, 0>>}, {FreshDisk}, {<<>>})

NextCalls ==
    \/ dropEvent(Drops("/src"))
    \/ dropEvent_submit(MaxInFlight, FALSE)
    \/ toggle_process(MaxThreads, FALSE)
    \/ WorkerEntry
    \/ WorkerCopy
    \/ WorkerTranscode
    \/ WorkerDisposal
    \/ WorkerBackup

SpecCalls == InitCalls /\ [][NextCalls]_vars

\* The window closes and opens while a call runs: the clock moves between
\* 10:00 and 20:00 under the window 09:00-17:00.
ClosingSettings ==
    {[BaseSettings EXCEPT !.no_time_restrictions = FALSE],
     [BaseSettings EXCEPT !.no_time_restrictions = FALSE, !.delete_after_conversion = TRUE]}

InitClosing == InitWith(ClosingSettings, ClockTimes, {FreshDisk}, {<<>>})

NextClosing ==
    \/ Tick(ClockTimes)
    \/ dropEvent(Drops("/src"))
    \/ dropEvent_submit(MaxCalls, FALSE)
    \/ toggle_process(MaxThreads, FALSE)
    \/ WorkerEntry
    \/ WorkerWindow
    \/ WorkerTranscode
    \/ WorkerDisposal
    \/ convert_file_retention_test
    \/ convert_file_delete

SpecClosing == InitClosing /\ [][NextClosing]_vars

\* The scan loop over a source folder with two files that share a stem, and
\* the workers, on a system where an open file can be removed.
StemFiles == {Name("a", "mp4"), Name("a", "avi")}

InitScan ==
    /\ InitApp({BaseSettings}, {<<10, 0, 0>>}, {Disk(StemFiles, {}, {}, {})}, {<<>>})
    /\ EncoderInit({SoftwareOnly})
    /\ os_name = "posix"

NextScan ==
    \/ toggle_process(MaxThreads, FALSE)
    \/ ThreadStep(MaxInFlight)
    \/ WorkerEntry
    \/ WorkerTranscode
    \/ WorkerDisposal

SpecScan == InitScan /\ [][NextScan]_vars

\* The pool under load: files are dropped while the window is closed, so that
\* every call stays in the gate; enough calls to occupy every worker.
PoolFiles == {Name("a", "mp4"), Name("b", "mp4")}
PoolDrops ==
    {<<Path("/other", Name("a", "mp4"))>>,
     <<Path("/other", Name("b", "mp4")), Path("/other", Name("a", "mp4"))>>}

InitPool ==
    InitWith({[BaseSettings EXCEPT !.no_time_restrictions = FALSE]}, {<<20, 0, 0>>},
             {Disk({}, {}, {}, PoolFiles)}, {<<>>})

NextPool ==
    \/ dropEvent(PoolDrops)
    \/ dropEvent_submit(max_workers + MaxQueue, FALSE)
    \/ dropEvent_next
    \/ convert_file_begin
    \/ convert_file_gate
    \/ WorkerWindow

SpecPool == InitPool /\ [][NextPool]_vars

\* The time-window gate over a range of clock readings and windows: one call
\* of convert_file runs is_within_allowed_hours.
GateHours == {0, 6, 9, 17, 22, 23}
GateMinutes == {0, 30}
GateTimes == {<<h, m, sec>> : h \in {0, 9, 10, 17, 20, 23}, m \in GateMinutes, sec \in {0, 30}}
GateSettings ==
    {[BaseSettings EXCEPT !.no_time_restrictions = r,
                             !.start_time = HHMM(h1, m1), !.end_time = HHMM(h2, m2)] :
        r \in BOOLEAN, h1 \in GateHours, m1 \in GateMinutes,
        h2 \in GateHours, m2 \in GateMinutes}

InitGate == InitWith(GateSettings, GateTimes, {FreshDisk}, Calls("/src", MaxCalls))

NextGate ==
    \/ convert_file_begin
    \/ convert_file_gate
    \/ WorkerWindow

SpecGate == InitGate /\ [][NextGate]_vars

\* The settings dialog saved at any moment, before, while and after a call
\* runs: update_settings assigns the attributes one by one next to the worker.
SettingsChoices ==
    {BaseSettings,
     [BaseSettings EXCEPT !.copy_only = TRUE],
     [BaseSettings EXCEPT !.copy_only = TRUE, !.video_codec = ""],
     [BaseSettings EXCEPT !.use_backup = TRUE, !.backup_folder = "/bak"],
     [BaseSettings EXCEPT !.backup_folder = "/bak"],
     [BaseSettings EXCEPT !.delete_after_conversion = TRUE],
     [BaseSettings EXCEPT !.delete_after_conversion = TRUE, !.backup_folder = "/bak"],
     [BaseSettings EXCEPT !.delete_after_conversion = TRUE, !.retention_time = 5],
     [BaseSettings EXCEPT !.delete_after_conversion = TRUE, !.retention_time = 5,
                          !.backup_folder = "/bak"],
     [BaseSettings EXCEPT !.delete_after_conversion = TRUE, !.retention_time = 31]}

InitSettings ==
    InitWith(SettingsChoices, {<<10, 0, 0>>}, {FreshDisk}, Calls("/src", MaxCalls))

NextSettings ==
    \/ update_settings(SettingsChoices)
    \/ update_settings_assign
    \/ TimerFires
    \/ WorkerEntry
    \/ WorkerCopy
    \/ WorkerTranscode
    \/ WorkerDisposal
    \/ WorkerBackup
    \/ WorkerDelete

SpecSettings == InitSettings /\ [][NextSettings]_vars

\* The window changed in the settings dialog at 20:00, from 09:00-17:00 to
\* 21:00-23:00 and back, while the loop scans and a worker starts a call:
\* every value the two attributes take together denies at 20:00.
WindowChoices ==
    {[BaseSettings EXCEPT !.no_time_restrictions = FALSE],
     [BaseSettings EXCEPT !.no_time_restrictions = FALSE,
                          !.start_time = HHMM(21, 0), !.end_time = HHMM(23, 0)]}

InitWindow == InitWith(WindowChoices, {<<20, 0, 0>>}, {FreshDisk}, {<<>>})

NextWindow ==
    \/ update_settings(WindowChoices)
    \/ update_settings_assign
    \/ dropEvent(Drops("/src"))
    \/ dropEvent_submit(MaxCalls, FALSE)
    \/ toggle_process(MaxThreads, FALSE)
    \/ ThreadStep(MaxCalls)
    \/ ScanWindow
    \/ convert_file_begin
    \/ convert_file_gate
    \/ WorkerWindow

SpecWindow == InitWindow /\ [][NextWindow]_vars

\* The folder scanner, over source and destination folders of several
\* contents, while copy-only is checked in the settings dialog, with or
\* without another source folder: the loop thread scans and submits, no worker
\* runs.
ScannerFiles == {Name("a", "mp4"), Name("b", "mp4"), Name("c", "MP4"), Name("d", "txt")}
ScannerArtifacts == {Name("a", "mov"), Name("b", "mp4"), Name("c", "mov")}
ScannerSettings ==
    {BaseSettings,
     [BaseSettings EXCEPT !.copy_only = TRUE, !.video_codec = ""],
     [BaseSettings EXCEPT !.copy_only = TRUE, !.video_codec = "", !.source_folder = "/other"]}

InitScanner ==
    InitWith(ScannerSettings, {<<10, 0, 0>>},
             {Disk(src, dst, {}, {}) : src \in SUBSET ScannerFiles, dst \in SUBSET ScannerArtifacts},
             {<<>>})

NextScanner ==
    \/ update_settings(ScannerSettings)
    \/ update_settings_assign
    \/ toggle_process(MaxThreads, FALSE)
    \/ ThreadStep(MaxInFlight)

SpecScanner == InitScanner /\ [][NextScanner]_vars

\* The scan loops: the button pressed at any moment, the auto-run timer, Quit
\* and the three folder buttons, with as many run_conversion threads alive as
\* their timing produces (up to MaxLoops), over empty source folders.
LoopSettings == {BaseSettings, [BaseSettings EXCEPT !.auto_run = TRUE]}

InitLoops == InitWith(LoopSettings, {<<10, 0, 0>>}, {OutsideDisk}, {<<>>})

NextLoops ==
    \/ auto_run_timer(MaxLoops)
    \/ toggle_process(MaxLoops, FALSE)
    \/ quit_application
    \/ select_source_folder({"/src", "/bak"})
    \/ select_destination_folder({"/dst", "/bak"})
    \/ select_backup_folder({"/bak", "/dst"})
    \/ ThreadIdle
    \/ convert_videos_raises

SpecLoops == InitLoops /\ [][NextLoops]_vars

\* Files dropped on the window at any moment, the start/stop button pressed
\* at any moment, over an empty source folder: the calls are those dropEvent
\* submitted, and the mark of a work item tells the ones dropped while the
\* loop was stopped.
InitDrop == InitWith({BaseSettings}, {<<10, 0, 0>>}, {OutsideDisk}, {<<>>})

NextDrop ==
    \/ toggle_process(MaxThreads, FALSE)
    \/ dropEvent(Drops("/other"))
    \/ dropEvent_submit(MaxCalls, TRUE)
    \/ ThreadIdle
    \/ WorkerEntry
    \/ WorkerTranscode
    \/ WorkerDisposal

SpecDrop == InitDrop /\ [][NextDrop]_vars

\* The encoder probe and the command builder on their own, over every outcome
\* of the probe and the codec settings. When the probe raised, the module was
\* never loaded and the application takes no step.
EncoderNames == {VendorEncoders(v).h264 : v \in Vendors} \cup {VendorEncoders(v).hevc : v \in Vendors}
Probes == {Probe(found, returncode, encoders) :
              found \in BOOLEAN, returncode \in {0, 1}, encoders \in SUBSET EncoderNames}
EncoderSettings ==
    {[BaseSettings EXCEPT !.output_format = fmt, !.video_codec = vc, !.audio_codec = ac] :
        fmt \in {"mp4", "mp3"}, vc \in {"libx264", "libx265"}, ac \in {"aac", ""}}

InitEncoders ==
    /\ InitApp(EncoderSettings, {<<10, 0, 0>>}, {FreshDisk}, {<<>>})
    /\ EncoderInit(Probes)
    /\ os_name = "nt"

\* convert_file calls build_ffmpeg_command(input_file, destination_file).
BuildCommand ==
    /\ ~GPU_ENCODERS.raised
    /\ command' = build_ffmpeg_command("in", "out", settings.output_format,
                                       settings.video_codec, settings.audio_codec,
                                       GPU_ENCODERS.supported)
    /\ returned' = NoReturn
    /\ UNCHANGED <<guiVars, now, encoderVars, fsVars, dispatcherVars, poolVars>>

NextEncoders == BuildCommand

SpecEncoders == InitEncoders /\ [][NextEncoders]_vars

\* -------------------------------------------------------------- properties
\* What the properties below say about a step or a state.
Range(s) == {s[i] : i \in DOMAIN s}

\* stop_conversion was the last of the start/stop handlers to run.
Stopped == ~running /\ stop_event

\* In this step the call j moves on, and the call n is what a call becomes.
Leaves(j) == CopiesIn(j, active') < CopiesIn(j, active)
Arrives(n) == CopiesIn(n, active') > CopiesIn(n, active)

\* In this step a call leaves the try block of convert_file as n.
Ends(n) == n.pc = "finally" /\ Arrives(n)

\* The same for the run_conversion threads.
ThreadLeaves(t) == CopiesIn(t, threads') < CopiesIn(t, threads)
ThreadArrives(n) == CopiesIn(n, threads') > CopiesIn(n, threads)

\* The number of elements of the bag B that satisfy Test.
Count(B, Test(_)) ==
    LET S == {x \in BagToSet(B) : Test(x)}
    IN BagCardinality([x \in S |-> CopiesIn(x, B)])

\* The convert_file calls on the path p that are queued or running.
JobsFor(p) ==
    LET On(j) == j.file = p
    IN Cardinality({i \in DOMAIN queue : queue[i].file = p}) + Count(active, On)

\* The outcomes that are failures of the call.
Failures == {"PreprocessFailed", "TranscodeFailed", "ToolNotFound", "CopyFailed", "Raised"}

\* The positions of is_within_allowed_hours and of the finally block.
GatePcs == {"gate", "gate_now", "gate_start", "gate_end"}
FinallyPcs == {"finally", "end_load", "end_store"}

\* The positions of a thread inside convert_videos.
ScanPcs == {"folders", "folders_destination", "gate", "gate_now", "gate_start", "gate_end", "listdir",
            "filter", "exists", "element", "stop_check", "submit"}

\* The source file of the call n after this step: moved to the backup folder
\* the settings s name, gone from its path, registered for a deferred deletion.
MovedTo(n, s) == os_path_isfile(disk', Path(s.backup_folder, n.file.name))
Gone(n) == ~os_path_isfile(disk', n.file)
Scheduled(n) == CopiesIn(n.file, pending') > 0

\* The attributes once the update_settings in progress, if any, has returned.
Latest == IF gui.pc = "update_settings" THEN gui.new ELSE settings

\* What the disposal of the call n has done is what the settings s choose: with
\* use_backup and a backup folder the source is in the backup folder or, when
\* the move failed, where it was; otherwise with delete_after_conversion it is
\* registered for a deferred deletion for retention > 0 and deleted (or left,
\* when os.remove failed) for retention 0; otherwise it is where it was.
DisposalDone(n, s) ==
    IF move_to_backup(s)
    THEN ~Scheduled(n) /\ (MovedTo(n, s) <=> Gone(n))
    ELSE /\ n.file.name \notin disk'["/bak"]
         /\ IF delete_original(s)
            THEN IF deletion_deferred(s) THEN Scheduled(n) /\ ~Gone(n) ELSE ~Scheduled(n)
            ELSE ~Scheduled(n) /\ ~Gone(n)

\* ------------------------------------------------------------------- C1
\* C1: for every source path, at most one convert_file call for that path is
\* queued or running at any time.
C1_OneJobPerPath ==
    \A f \in StemFiles : JobsFor(Path("/src", f)) <= 1

\* ------------------------------------------------------------------- C2
\* C2: the number of convert_file calls executing at the same time never
\* exceeds the pool limit of 4; the calls beyond it wait in the queue.
C2_PoolLimit == BagCardinality(active) <= max_workers

C2_Witness == BagCardinality(active) = max_workers /\ queue # <<>>

\* ------------------------------------------------------------------- C3
\* C3: once stop_conversion has run and start_conversion has not run again,
\* no thread enters convert_videos, no call is submitted and no call begins.
C3_StopHalts ==
    [][(Stopped /\ Stopped') =>
          /\ queue' = queue
          /\ \A n \in BagToSet(threads') : ThreadArrives(n) => n.pc # "folders"
          /\ \A n \in BagToSet(active') : Arrives(n) => n.pc # "gate"]_vars

\* ------------------------------------------------------------------- C4
\* C4: a call that was copying or encoding when stop_conversion ran never
\* enters the disposal block and does not end with Success.
C4_StopCancelsEncoding ==
    \A j \in BagToSet(active) :
        j.hit => /\ j.pc \notin DisposalPcs
                 /\ j.pc \in FinallyPcs => j.outcome # "Success"

\* ------------------------------------------------------------------- C5
\* C5: from every reachable state, stop_conversion run twice leaves the
\* dispatcher as stop_conversion run once does: not running, the stop event
\* set, the threads and the calls as they were.
C5_StopIdempotent ==
    LET once == stop_conversion(Dispatcher)
    IN /\ stop_conversion(once) = once
       /\ ~once.running
       /\ once.stop_event
       /\ once.threads = threads
       /\ once.queue = queue
       /\ once.active = active

C5_Witness == Stopped /\ threads # EmptyBag /\ \E j \in BagToSet(active) : j.pc = "enc"

\* ------------------------------------------------------------------- C6
\* C6: a call is in the disposal block only after its transcoder exited with
\* 0 or its copy succeeded; the transcoder starts only after the
\* preprocessing, the disposal only after the transcoder or the copy; and only
\* the disposal block (and the timers it started) removes a source file or
\* registers a deletion, so a call that ends with any outcome but Success was
\* never in it.
C6_DisposalAfterSuccess ==
    \A j \in BagToSet(active) :
        j.pc \in DisposalPcs => (j.copy \/ j.return_code = 0)

C6_Step ==
    /\ \A n \in BagToSet(active') : Arrives(n) =>
          /\ n.pc = "popen" =>
                \E j \in BagToSet(active) : Leaves(j) /\ j.file = n.file /\ j.pc = "command"
          /\ n.pc = "enc" =>
                \E j \in BagToSet(active) : Leaves(j) /\ j.file = n.file /\ j.pc = "popen"
          /\ n.pc = "backup_test" =>
                \E j \in BagToSet(active) :
                    /\ Leaves(j)
                    /\ j.file = n.file
                    /\ \/ j.pc = "enc" /\ ~n.copy /\ n.return_code = 0
                       \/ j.pc = "copying" /\ n.copy
          /\ n.pc \in DisposalPcs \ {"backup_test"} =>
                \E j \in BagToSet(active) : Leaves(j) /\ j.file = n.file /\ j.pc \in DisposalPcs
          /\ n.pc = "finally" =>
                \E j \in BagToSet(active) :
                    /\ Leaves(j)
                    /\ j.file = n.file
                    /\ (n.outcome = "Success") <=> (j.pc \in DisposalPcs)
    /\ (disk'["/src"] # disk["/src"] \/ pending' # pending) =>
          \/ \E j \in BagToSet(active) : Leaves(j) /\ j.pc \in {"rename", "timer", "delete_file"}
          \/ BagCardinality(pending') < BagCardinality(pending)

C6_DisposalOrder == []C6_DisposalAfterSuccess /\ [][C6_Step]_vars

C6_Witness ==
    /\ \E j \in BagToSet(active) : j.pc = "finally" /\ j.outcome = "Success"
                                   /\ ~os_path_isfile(disk, j.file)
    /\ ~settings.copy_only
    /\ dstDir # {}

\* ------------------------------------------------------------------- C7
\* C7: a call that ends with Success has done exactly one of the disposals,
\* the one chosen by the settings: those it began with or, when the dialog was
\* saved meanwhile, the saved ones.
C7_DisposalPolicy ==
    [][\A n \in BagToSet(active') : (Ends(n) /\ n.outcome = "Success") =>
          \/ DisposalDone(n, n.snapshot)
          \/ DisposalDone(n, Latest')]_vars

\* ------------------------------------------------------------------- C8
\* C8: no call is in the disposal block while the attributes hold use_backup
\* with delete_after_conversion and retention 0.
C8_NoImmediateDeleteWithBackup ==
    \A j \in BagToSet(active) :
        j.pc \in DisposalPcs => ~ImmediateDeleteWithBackup(settings)

\* ------------------------------------------------------------------- C9
\* C9: the gate admits a call exactly when no_time_restrictions is set, or
\* start <= now <= end for start <= end, or now >= start or now <= end for
\* start > end, the times compared as times of day.
Seconds(t) == 3600 * t[1] + 60 * t[2] + t[3]

ClaimedGate ==
    LET n == Seconds(now)
        st == Seconds(strptime(settings.start_time))
        en == Seconds(strptime(settings.end_time))
    IN \/ settings.no_time_restrictions
       \/ st <= en /\ st <= n /\ n <= en
       \/ st > en /\ (n >= st \/ n <= en)

C9_Gate ==
    /\ Allowed <=> ClaimedGate
    /\ \A j \in BagToSet(active) : j.pc = "indicator" => ClaimedGate
    /\ returned.outcome = "SkippedOutsideWindow" => ~ClaimedGate

C9_Witness ==
    /\ ~settings.no_time_restrictions
    /\ settings.start_time = HHMM(22, 0)
    /\ settings.end_time = HHMM(6, 0)
    /\ now = <<23, 30, 0>>
    /\ \E j \in BagToSet(active) : j.pc = "indicator"

\* ------------------------------------------------------------------ C10
\* C10: while the gate denies, no scan goes on to list the source folder and
\* no call goes on beyond the gate: it returns as SkippedOutsideWindow.
C10_GateEnforced ==
    [][~Allowed =>
          /\ \A n \in BagToSet(threads') : ThreadArrives(n) => n.pc # "listdir"
          /\ \A n \in BagToSet(active') : Arrives(n) => n.pc # "indicator"]_vars

\* ------------------------------------------------------------------ C11
\* C11: the list a scan returns holds, each once, exactly the entries of the
\* source folder with a supported extension and no destination artifact, for
\* the output format or the copy-only mode in force.
ScanResults ==
    {{Path(s.source_folder, f) : f \in new_files(disk, s)} : s \in ScannerSettings}

C11_ScanReturns ==
    [][\A t \in BagToSet(threads) :
          (t.pc \in {"filter", "exists", "element"} /\ Tail(t.listing) = <<>> /\ ThreadLeaves(t)) =>
              \E n \in BagToSet(threads') :
                  /\ ThreadArrives(n)
                  /\ LET result == IF n.pc = "stop_check" THEN n.new_files ELSE <<>>
                     IN \/ n.pc \in {"exists", "element"}
                        \/ /\ Range(result) \in ScanResults
                           /\ Len(result) = Cardinality(Range(result))]_vars

\* ------------------------------------------------------------------ C12
\* C12: a call whose remux failed after its validation failed ends with
\* PreprocessFailed, in a step that leaves the disk and the pending deletions
\* as they are, without having started the transcoder; and PreprocessFailed is
\* the outcome of no other call.
C12_Step ==
    /\ \A j \in BagToSet(active) : (j.pc = "repair_wait" /\ ~j.ok /\ Leaves(j)) =>
          /\ \E n \in BagToSet(active') :
                Ends(n) /\ n.file = j.file /\ n.outcome = "PreprocessFailed"
          /\ UNCHANGED <<disk, pending>>
    /\ \A n \in BagToSet(active') : (Ends(n) /\ n.outcome = "PreprocessFailed") =>
          \E j \in BagToSet(active) : Leaves(j) /\ j.pc = "repair_wait" /\ ~j.ok

C12_PreprocessFailed == [][C12_Step]_vars

C12_Witness ==
    /\ \E j \in BagToSet(active) : j.pc = "finally" /\ j.outcome = "PreprocessFailed"
                                   /\ os_path_isfile(disk, j.file)
    /\ dstDir = {}
    /\ disk["/bak"] = {}
    /\ pending = EmptyBag

\* ------------------------------------------------------------------ C13
\* C13: the step in which a call fails changes that call only: the flags, the
\* loop threads, the queue, the attributes and every other call stay as they
\* are.
C13_Step ==
    \A n \in BagToSet(active') : (Ends(n) /\ n.outcome \in Failures) =>
        /\ UNCHANGED <<running, stop_event, threads, queue, settings, gui>>
        /\ \E j \in BagToSet(active) :
              /\ j.file = n.file
              /\ active' = (active (-) One(j)) (+) One(n)

C13_Isolation == [][C13_Step]_vars

C13_Witness ==
    /\ running
    /\ ~stop_event
    /\ threads # EmptyBag
    /\ \E j, k \in BagToSet(active) :
          /\ j.pc = "finally"
          /\ j.outcome = "TranscodeFailed"
          /\ k.pc = "enc"

\* ------------------------------------------------------------------ C14
\* C14: while the dispatcher is started and not stopped, no run_conversion
\* thread goes to its end.
C14_LoopSurvives ==
    [][(running /\ ~stop_event) =>
          \A n \in BagToSet(threads') : ThreadArrives(n) => n.pc # "finally"]_vars

\* ------------------------------------------------------------------ C15
\* C15: when a call ends with TranscodeFailed its source file is where it was
\* and a scan would find it again: it has no destination artifact.
C15_FailedTranscodeRetried ==
    [][\A n \in BagToSet(active') : (Ends(n) /\ n.outcome = "TranscodeFailed") =>
          /\ disk'["/src"] = disk["/src"]
          /\ os_path_isfile(disk', n.file) => n.file.name \in new_files(disk', settings')]_vars

\* ------------------------------------------------------------------ C16
\* C16: under fair scheduling every call submitted to the pool returns: from
\* some moment on no call is queued or running.
C16_Termination == <>[]Drained

C16_Witness == Drained /\ stop_event /\ returned.outcome \in Outcomes

\* ------------------------------------------------------------------ C17
\* C17: a call that began under delete_after_conversion without use_backup
\* and retention > 0 and ends with Success leaves the source file in place
\* with exactly one deletion pending for it (or has disposed as the settings
\* saved meanwhile choose).
C17_DeferredDeletion ==
    [][\A n \in BagToSet(active') :
          (/\ Ends(n)
           /\ n.outcome = "Success"
           /\ delete_original(n.snapshot)
           /\ deletion_deferred(n.snapshot)) =>
              \/ os_path_isfile(disk', n.file) /\ CopiesIn(n.file, pending') = 1
              \/ DisposalDone(n, Latest')]_vars

\* ------------------------------------------------------------------ C18
\* C18: a call whose move to the backup folder failed goes on to Success
\* without deleting its source or registering a deletion: the source stays in
\* place next to the destination artifact.
C18_FailedMoveKeepsSource ==
    \A j \in BagToSet(active) :
        j.rename_failed =>
            /\ j.pc = "delete_test"
            /\ os_path_isfile(disk, j.dest)
            /\ CopiesIn(j.file, pending) = 0

\* ------------------------------------------------------------------ C19
\* C19: whether ffmpeg is missing or its listing exits non-zero, the probe
\* returns the empty mapping and the application runs.
C19_ProbeFailsSoftly ==
    (~encoder_probe.found \/ encoder_probe.returncode # 0) =>
        (~GPU_ENCODERS.raised /\ DOMAIN GPU_ENCODERS.supported = {})

\* ------------------------------------------------------------------ C20
\* The vendors the probe detected, and the first of them in the fixed order.
Detected ==
    {v \in Vendors : \/ VendorEncoders(v).h264 \in encoder_probe.encoders
                     \/ VendorEncoders(v).hevc \in encoder_probe.encoders}
FirstDetected ==
    IF "nvidia" \in Detected THEN "nvidia"
    ELSE IF "intel" \in Detected THEN "intel" ELSE "amd"

\* The options of a command: the elements between the input and the output.
Options(cmd) == SubSeq(cmd, 5, Len(cmd) - 1)

\* C20: every command build_ffmpeg_command returns follows the rules in
\* priority order: for mp3, no video stream and the configured audio codec
\* (libmp3lame when unset), whatever hardware is detected; otherwise with a
\* vendor detected, the h264 encoder of the first detected vendor in the order
\* nvidia, intel, amd and the configured audio codec; otherwise the configured
\* video and audio codecs.
C20_CommandRules ==
    [][command' # <<>> =>
          /\ SubSeq(command', 1, 4) = <<"ffmpeg", "-y", "-i", "in">>
          /\ command'[Len(command')] = "out"
          /\ Options(command') =
                IF settings.output_format = "mp3"
                THEN <<"-vn", "-acodec",
                       IF settings.audio_codec = "" THEN "libmp3lame"
                       ELSE settings.audio_codec>>
                ELSE IF encoder_probe.returncode = 0 /\ Detected # {}
                THEN <<"-vcodec",
                       CASE FirstDetected = "nvidia" -> "h264_nvenc"
                         [] FirstDetected = "intel" -> "h264_qsv"
                         [] FirstDetected = "amd" -> "h264_amf",
                       "-acodec", settings.audio_codec>>
                ELSE <<"-vcodec", settings.video_codec,
                       "-acodec", settings.audio_codec>>]_vars

C20_Witness ==
    /\ Detected = {"intel", "amd"}
    /\ encoder_probe.returncode = 0
    /\ Len(command) = 9
    /\ command[6] = "h264_qsv"

\* ------------------------------------------------------------------ C21
\* C21: a call in the copy-only branch copies to the destination under the
\* name of the source.
C21_CopyOnly ==
    \A j \in BagToSet(active) : j.copy => j.dest.name = j.file.name

\* ------------------------------------------------------------------ C22
\* C22: only the gate at the start of a call returns SkippedOutsideWindow,
\* and a call beyond the gate ends with Stopped only when the stop event is
\* set: the window closing does not end it.
C22_Step ==
    /\ returned'.outcome = "SkippedOutsideWindow" =>
          \E j \in BagToSet(active) :
              /\ Leaves(j)
              /\ j.pc = "gate_end"
              /\ ~is_within_allowed_hours(j.current_time, j.start_time_str,
                                          settings.end_time, FALSE)
    /\ \A n \in BagToSet(active') :
          (Ends(n) /\ n.outcome \in {"Stopped", "SkippedOutsideWindow"}) => stop_event

C22_NotKilledByWindow == [][C22_Step]_vars

C22_Witness == returned.outcome = "Success" /\ ~Allowed /\ ~stop_event /\ dstDir # {}

\* ------------------------------------------------------------------ C23
\* C23: a call works on the attributes as they were when it began: its
\* destination, its branch and its disposal are the ones those choose.
C23_SettingsSnapshot ==
    \A j \in BagToSet(active) :
        /\ j.dest # NoPath =>
              j.dest = destination_file(j.file.name, j.snapshot.destination_folder,
                                        j.snapshot.copy_only, j.snapshot.output_format)
        /\ j.pc \in {"copy", "copying"} => j.snapshot.copy_only
        /\ j.pc \in {"backup_path", "rename"} => move_to_backup(j.snapshot)
        /\ j.pc \in {"retention_test", "timer", "delete_file"} => delete_original(j.snapshot)

\* ------------------------------------------------------------------ C24
\* C24: the temporary directories that exist are those of the calls inside
\* the with block, one each: a call that has left the block, by whatever
\* outcome, has none, and a call that enters it makes a new one.
C24_OneDirectoryPerCall == temp_dirs = Count(active, InTemporaryDirectory)

C24_Step ==
    /\ \A n \in BagToSet(active') : (Arrives(n) /\ n.pc = "probe") =>
          temp_dirs' = temp_dirs + 1
    /\ \A j \in BagToSet(active) : (Leaves(j) /\ InTemporaryDirectory(j)) =>
          \A n \in BagToSet(active') : Ends(n) => temp_dirs' = temp_dirs - 1
    /\ temp_dirs' # temp_dirs =>
          \E j \in BagToSet(active) : Leaves(j) /\ (j.pc = "tempdir" \/ InTemporaryDirectory(j))

C24_TemporaryDirectory == []C24_OneDirectoryPerCall /\ [][C24_Step]_vars

\* ------------------------------------------------------------------ C25
\* C25: no two run_conversion threads are inside convert_videos at the same
\* time.
C25_OneScanLoop ==
    LET Scanning(t) == t.pc \in ScanPcs
    IN Count(threads, Scanning) <= 1

\* ------------------------------------------------------------------ C26
\* C26: no two calls on different files copy or encode into the same
\* destination path at the same time.
C26_OneWriterPerDestination ==
    \A j, k \in BagToSet(active) :
        (/\ j.file # k.file
         /\ j.pc \in {"copying", "enc"}
         /\ k.pc \in {"copying", "enc"}) => j.dest # k.dest

\* ------------------------------------------------------------------ C27
\* C27: whenever running is true a run_conversion thread is alive.
C27_RunningReflectsLoop == running => threads # EmptyBag

\* ------------------------------------------------------------------ C28
\* C28: the counter is never negative and, whenever no call is inside one of
\* the two indicators, it is the number of calls that have passed
\* start_conversion_indicator and not end_conversion_indicator.
C28_CounterExact ==
    LET Inside(j) == j.pc \in {"indicator_store", "end_load", "end_store"}
        Between(j) == j.pc \notin GatePcs \cup {"indicator", "indicator_store",
                                                "end_load", "end_store"}
    IN /\ active_conversion_count >= 0
       /\ Count(active, Inside) = 0 => active_conversion_count = Count(active, Between)

\* ------------------------------------------------------------------ C29
\* C29: when a call ends with Stopped, a scan would find its file again: it
\* has no destination artifact.
C29_StoppedFileRediscovered ==
    [][\A n \in BagToSet(active') : (Ends(n) /\ n.outcome = "Stopped") =>
          n.file.name \in new_files(disk', settings')]_vars

\* ------------------------------------------------------------------ C30
\* C30: no call submitted by dropEvent while the loop is stopped with the
\* stop event left set, the button not pressed since, ends with Stopped.
C30_DroppedFileConverted ==
    \A j \in BagToSet(active) : (j.pc \in FinallyPcs /\ j.after_stop) => j.outcome # "Stopped"

====
